---- MODULE Spec2Model ----
(***************************************************************************)
(* Model of the terracost cost estimation engine:                          *)
(*   - cost.NewState, State.Cost and State.addComponent (package cost),    *)
(*   - estimateDisplay (command-line report),                              *)
(*   - VirtualNetworkGateway.Components (azurerm/terraform).               *)
(* decimal.Decimal values are arbitrary-precision; they are modelled as    *)
(* integers (a fixed number of fractional digits), on which Add, Mul and   *)
(* Equals are exact.                                                       *)
(***************************************************************************)
EXTENDS Integers, Sequences, FiniteSets, TLC

VARIABLES
    \* ---- cost.NewState -------------------------------------------------
    queries,     \* the []query.Resource argument
    backendNil,  \* TRUE when the Backend argument is a nil interface
    catalog,     \* what the Backend's product repository answers, per filter
    ctxDone,     \* TRUE once the ctx argument is cancelled / past its deadline
    pc,          \* position of the running function
    ri,          \* index of the outer range loop (resources)
    ci,          \* index of the inner range loop (components)
    prods,       \* local variable prods of NewState
    resources,   \* state.Resources : map[string]Resource
    ret,         \* what NewState returned to its caller
    calls,       \* history: the catalog lookups issued so far, in order
    \* ---- estimateDisplay -----------------------------------------------
    diffs,       \* resourceDiff.ResourceDifferences()
    di,          \* index of the range loop
    out,         \* the lines printed so far
    evals,       \* history: the PriorCost / PlannedCost calls made so far
    \* ---- VirtualNetworkGateway -----------------------------------------
    vals,        \* decoded virtualNetworkGatewayValues
    components   \* result of Components()

stateVars   == <<queries, backendNil, catalog, ctxDone, pc, ri, ci, prods, resources, ret, calls>>
displayVars == <<diffs, di, out, evals>>
gatewayVars == <<vals, components>>
vars        == <<stateVars, displayVars, gatewayVars>>

(***************************************************************************)
(* Bounds of the model.                                                    *)
(***************************************************************************)
MaxRes == 2
MaxComps == 2
MaxDiffs == 2
MaxUsageGB == 4

(***************************************************************************)
(* Go maps: a function whose DOMAIN is the set of keys present.            *)
(***************************************************************************)
EmptyMap == [k \in {} |-> 0]

MapPut(m, k, v) == [a \in (DOMAIN m) \cup {k} |-> IF a = k THEN v ELSE m[a]]

RECURSIVE SumSet(_, _)
SumSet(S, f) ==
    IF S = {} THEN 0
    ELSE LET e == CHOOSE e \in S : TRUE IN f[e] + SumSet(S \ {e}, f)

(***************************************************************************)
(* package cost                                                            *)
(***************************************************************************)
HoursPerMonth == 730

NoError == "nil"
ErrProductNotFound == "product not found"
ErrPriceNotFound == "price not found"
ErrCtx == "context canceled"
ErrBackend == "backend error"

\* Component{Error: err}: every other field keeps Go's zero value.
ErrorComponentDropsError(err) ==
    [Quantity |-> 0, Unit |-> "", Rate |-> 0, Details |-> <<>>, Error |-> NoError]

ErrorComponent(err) ==
    [Quantity |-> 0, Unit |-> "", Rate |-> 0, Details |-> <<>>, Error |-> err]

\* Lines 282-294: quantity / rate normalisation of a priced component.
PricedComponentNoMonthly(comp, price) ==
    [Quantity |-> IF comp.MonthlyQuantity = 0 THEN comp.HourlyQuantity ELSE comp.MonthlyQuantity,
     Unit |-> comp.Unit,
     Rate |-> price.Value,
     Details |-> comp.Details,
     Error |-> NoError]

PricedComponent(comp, price) ==
    LET quantity == comp.MonthlyQuantity
        rate == price.Value
        zero == quantity = 0
    IN [Quantity |-> IF zero THEN comp.HourlyQuantity ELSE quantity,
        Unit |-> comp.Unit,
        Rate |-> IF zero THEN rate * HoursPerMonth ELSE rate,
        Details |-> comp.Details,
        Error |-> NoError]

\* Resource{Skipped: true}: the Components map is nil.
SkippedResourceNotFlagged == [Components |-> EmptyMap, NilMap |-> TRUE, Skipped |-> FALSE]

SkippedResource == [Components |-> EmptyMap, NilMap |-> TRUE, Skipped |-> TRUE]

\* Resource{Components: make(map[string]Component)}
NewResource == [Components |-> EmptyMap, NilMap |-> FALSE, Skipped |-> FALSE]

\* State.addComponent.  The result is the new Resources map and whether the
\* assignment into the Components map panicked (assignment to entry in nil map).
addComponent(rs, resAddress, compLabel, component) ==
    LET rs1 == IF resAddress \in DOMAIN rs THEN rs ELSE MapPut(rs, resAddress, NewResource)
        re == rs1[resAddress]
    IN IF re.NilMap
       THEN [panic |-> TRUE, rs |-> rs1]
       ELSE [panic |-> FALSE,
             rs |-> [rs1 EXCEPT ![resAddress].Components = MapPut(re.Components, compLabel, component)]]

\* Component.Cost and Resource.Cost (cost package, not part of the given sources).
ComponentCost(c) == c.Quantity * c.Rate

ResourceCost(re) ==
    SumSet(DOMAIN re.Components, [l \in DOMAIN re.Components |-> ComponentCost(re.Components[l])])

\* State.Cost
StateCostFirstOnly(rs) ==
    IF DOMAIN rs = {} THEN 0
    ELSE ResourceCost(rs[CHOOSE a \in DOMAIN rs : TRUE])

StateCost(rs) ==
    SumSet(DOMAIN rs, [a \in DOMAIN rs |-> ResourceCost(rs[a])])

(***************************************************************************)
(* The catalog behind the Backend interface.  A lookup answers with an     *)
(* error or with an ordered list; with a cancelled context it answers with *)
(* the context's error.                                                    *)
(***************************************************************************)
ProductIDs == {"p1", "p2"}
ProductFilters == {"compute", "transfer"}
PriceFilters == {"1 Hour", "1 GB"}

Answer(err, list) == [err |-> err, list |-> list]

ProductAnswers ==
    { Answer(ErrBackend, <<>>),
      Answer(NoError, <<>>),
      Answer(NoError, <<[ID |-> "p1"], [ID |-> "p2"]>>),
      Answer(NoError, <<[ID |-> "p2"], [ID |-> "p1"]>>) }

Catalogs == [ProductFilters -> ProductAnswers]

PriceTable(id, filter) ==
    IF id = "p1" /\ filter = "1 Hour" THEN Answer(NoError, <<[Value |-> 3], [Value |-> 5]>>)
    ELSE IF id = "p1" /\ filter = "1 GB" THEN Answer(NoError, <<>>)
    ELSE IF id = "p2" /\ filter = "1 Hour" THEN Answer(ErrBackend, <<[Value |-> 9]>>)
    ELSE Answer(NoError, <<[Value |-> 7]>>)

\* backend.Product().Filter(ctx, filter)
ProductFilter(cat, done, filter) ==
    IF done THEN Answer(ErrCtx, <<>>) ELSE cat[filter]

\* backend.Price().Filter(ctx, productID, filter)
PriceFilter(cat, done, id, filter) ==
    IF done THEN Answer(ErrCtx, <<>>) ELSE PriceTable(id, filter)

(***************************************************************************)
(* Inputs of NewState.                                                     *)
(***************************************************************************)
Addresses == {"gateway-1", "compute-1"}

QueryComponents ==
    { [Name |-> "instance", MonthlyQuantity |-> 0, HourlyQuantity |-> 1, Unit |-> "Hours",
       Details |-> <<"Linux">>, Usage |-> FALSE,
       ProductFilter |-> "compute", PriceFilter |-> "1 Hour"],
      [Name |-> "transfer", MonthlyQuantity |-> 2, HourlyQuantity |-> 1, Unit |-> "GB",
       Details |-> <<>>, Usage |-> TRUE,
       ProductFilter |-> "transfer", PriceFilter |-> "1 GB"],
      [Name |-> "requests", MonthlyQuantity |-> 0, HourlyQuantity |-> 0, Unit |-> "Requests",
       Details |-> <<>>, Usage |-> TRUE,
       ProductFilter |-> "compute", PriceFilter |-> "1 GB"] }

SeqsUpTo(S, n) == UNION {[1..k -> S] : k \in 0..n}

\* component labels are unique within a resource
ComponentLists ==
    {s \in SeqsUpTo(QueryComponents, MaxComps) :
        \A i, j \in DOMAIN s : s[i].Name = s[j].Name => i = j}

QueryResources == {[Address |-> a, Components |-> cl] : a \in Addresses, cl \in ComponentLists}

AnyQueries == SeqsUpTo(QueryResources, MaxRes)

UniqueAddresses(q) == \A i, j \in DOMAIN q : q[i].Address = q[j].Address => i = j

ValidQueries == {q \in AnyQueries : UniqueAddresses(q)}

NoReturn == [returned |-> FALSE, state |-> EmptyMap, err |-> NoError]

DisplayIdle == diffs = <<>> /\ di = 0 /\ out = <<>> /\ evals = <<>>

GatewayIdle == vals = [SKU |-> "", Location |-> "", MonthlyDataTransferGB |-> 0] /\ components = <<>>

\* state := &State{Resources: make(map[string]Resource)}
NewStateEntry ==
    /\ ctxDone = FALSE
    /\ pc = "range"
    /\ ri = 1
    /\ ci = 0
    /\ prods = <<>>
    /\ resources = EmptyMap
    /\ ret = NoReturn
    /\ calls = <<>>

\* A call that satisfies the data model: a backend, unique addresses.
Init ==
    /\ queries \in ValidQueries
    /\ backendNil = FALSE
    /\ catalog \in Catalogs
    /\ NewStateEntry
    /\ DisplayIdle
    /\ GatewayIdle

\* Any call the signature admits: a nil Backend, repeated addresses.
InitAny ==
    /\ queries \in AnyQueries
    /\ backendNil \in BOOLEAN
    /\ catalog \in {c \in Catalogs : backendNil => \A f \in ProductFilters : c[f] = Answer(NoError, <<>>)}
    /\ NewStateEntry
    /\ DisplayIdle
    /\ GatewayIdle

(***************************************************************************)
(* cost.NewState, one action per step of the two range loops.              *)
(***************************************************************************)
Res == queries[ri]
Comp == queries[ri].Components[ci]

\* for _, res := range queries { if len(res.Components) == 0 { ... } ...
RangeResource ==
    /\ pc = "range"
    /\ ri <= Len(queries)
    /\ IF Len(Res.Components) = 0
       THEN /\ resources' = MapPut(resources, Res.Address, SkippedResource)
            /\ ri' = ri + 1
            /\ UNCHANGED <<pc, ci>>
       ELSE /\ ci' = 1
            /\ pc' = "product"
            /\ UNCHANGED <<resources, ri>>
    /\ UNCHANGED <<queries, backendNil, catalog, ctxDone, prods, ret, calls>>
    /\ UNCHANGED <<displayVars, gatewayVars>>

\* state.addComponent(res.Address, comp.Name, c) followed by the move to the
\* next component (continue / end of the loop body).
Record(c) ==
    LET r == addComponent(resources, Res.Address, Comp.Name, c)
    IN /\ resources' = r.rs
       /\ prods' = <<>>
       /\ IF r.panic
          THEN pc' = "panic" /\ UNCHANGED <<ri, ci>>
          ELSE IF ci < Len(Res.Components)
               THEN ci' = ci + 1 /\ pc' = "product" /\ UNCHANGED ri
               ELSE ri' = ri + 1 /\ pc' = "range" /\ UNCHANGED ci

Call(op, filter, id, answer) ==
    [op |-> op, ri |-> ri, ci |-> ci, filter |-> filter, id |-> id, answer |-> answer]

\* prods, err := backend.Product().Filter(ctx, comp.ProductFilter) and the two
\* checks that follow it.
ProductLookup ==
    /\ pc = "product"
    /\ IF backendNil
       THEN /\ pc' = "panic"
            /\ UNCHANGED <<ri, ci, prods, resources, calls>>
       ELSE LET a == ProductFilter(catalog, ctxDone, Comp.ProductFilter)
            IN /\ calls' = Append(calls, Call("product", Comp.ProductFilter, "", a))
               /\ IF a.err # NoError
                  THEN Record(ErrorComponent(a.err))
                  ELSE IF Len(a.list) < 1
                       THEN Record(ErrorComponent(ErrProductNotFound))
                       ELSE /\ prods' = a.list
                            /\ pc' = "price"
                            /\ UNCHANGED <<ri, ci, resources>>
    /\ UNCHANGED <<queries, backendNil, catalog, ctxDone, ret>>
    /\ UNCHANGED <<displayVars, gatewayVars>>

\* prods[0].ID
FirstProductLast(ps) == ps[Len(ps)].ID

FirstProduct(ps) == ps[1].ID

\* prices, err := backend.Price().Filter(ctx, prods[0].ID, comp.PriceFilter), the
\* two checks that follow it, and the priced component.
PriceLookup ==
    /\ pc = "price"
    /\ LET id == FirstProduct(prods)
           a == PriceFilter(catalog, ctxDone, id, Comp.PriceFilter)
       IN /\ calls' = Append(calls, Call("price", Comp.PriceFilter, id, a))
          /\ IF a.err # NoError
             THEN Record(ErrorComponent(a.err))
             ELSE IF Len(a.list) < 1
                  THEN Record(ErrorComponent(ErrPriceNotFound))
                  ELSE Record(PricedComponent(Comp, a.list[1]))
    /\ UNCHANGED <<queries, backendNil, catalog, ctxDone, ret>>
    /\ UNCHANGED <<displayVars, gatewayVars>>

\* return state, nil
Return ==
    /\ pc = "range"
    /\ ri > Len(queries)
    /\ ret' = [returned |-> TRUE, state |-> resources, err |-> NoError]
    /\ pc' = "done"
    /\ UNCHANGED <<queries, backendNil, catalog, ctxDone, ri, ci, prods, resources, calls>>
    /\ UNCHANGED <<displayVars, gatewayVars>>

\* The caller cancels ctx (or its deadline passes) while NewState runs.
Cancel ==
    /\ pc \in {"range", "product", "price"}
    /\ ~ctxDone
    /\ ctxDone' = TRUE
    /\ UNCHANGED <<queries, backendNil, catalog, pc, ri, ci, prods, resources, ret, calls>>
    /\ UNCHANGED <<displayVars, gatewayVars>>

Next == RangeResource \/ ProductLookup \/ PriceLookup \/ Return \/ Cancel

Spec == Init /\ [][Next]_vars

SpecAny == InitAny /\ [][Next]_vars

(***************************************************************************)
(* estimateDisplay: one action per iteration of the range loop.            *)
(***************************************************************************)
DiffAddresses == Addresses \cup {"disk-1"}

\* What PriorCost() / PlannedCost() return: (cost, err).
CostResults ==
    { [cost |-> 0, err |-> NoError],
      [cost |-> 73, err |-> NoError],
      [cost |-> 0, err |-> ErrProductNotFound],
      [cost |-> 0, err |-> ErrPriceNotFound] }

ResourceDiffs == [Address : DiffAddresses, prior : CostResults, planned : CostResults]

Plans == {d \in SeqsUpTo(ResourceDiffs, MaxDiffs) : UniqueAddresses(d)}

NewStateIdle ==
    /\ queries = <<>>
    /\ backendNil = FALSE
    /\ catalog = [f \in ProductFilters |-> Answer(NoError, <<>>)]
    /\ ctxDone = FALSE
    /\ ri = 0
    /\ ci = 0
    /\ prods = <<>>
    /\ resources = EmptyMap
    /\ ret = NoReturn
    /\ calls = <<>>

InitDisplay ==
    /\ diffs \in Plans
    /\ di = 1
    /\ out = <<>>
    /\ evals = <<>>
    /\ pc = "display"
    /\ NewStateIdle
    /\ GatewayIdle

Line(format, args) == [format |-> format, args |-> args]

\* fmt.Printf("PriorCost %s: %s\n", res.Address, err)
PriorErrorLinePrintsPlanned(res) == Line("PriorCost %s: %s\n", <<res.Address, res.planned.err>>)

PriorErrorLine(res) == Line("PriorCost %s: %s\n", <<res.Address, res.prior.err>>)

\* fmt.Printf("PlannedCost %s: %s\n", res.Address, err)
PlannedErrorLine(res) == Line("PlannedCost %s: %s\n", <<res.Address, res.planned.err>>)

\* fmt.Printf("%s: %s -> %s\n", res.Address, priorCost, plannedCost)
CostLine(res) == Line("%s: %s -> %s\n", <<res.Address, res.prior.cost, res.planned.cost>>)

Eval(method, i) == [method |-> method, di |-> i]

DisplayResource ==
    /\ pc = "display"
    /\ di <= Len(diffs)
    /\ LET res == diffs[di]
       IN IF res.prior.err # NoError
          THEN /\ evals' = Append(evals, Eval("PriorCost", di))
               /\ out' = Append(out, PriorErrorLine(res))
          ELSE IF res.planned.err # NoError
               THEN /\ evals' = evals \o <<Eval("PriorCost", di), Eval("PlannedCost", di)>>
                    /\ out' = Append(out, PlannedErrorLine(res))
               ELSE /\ evals' = evals \o <<Eval("PriorCost", di), Eval("PlannedCost", di)>>
                    /\ out' = Append(out, CostLine(res))
    /\ di' = di + 1
    /\ UNCHANGED <<diffs, stateVars, gatewayVars>>

DisplayReturn ==
    /\ pc = "display"
    /\ di > Len(diffs)
    /\ pc' = "displayed"
    /\ UNCHANGED <<queries, backendNil, catalog, ctxDone, ri, ci, prods, resources, ret, calls>>
    /\ UNCHANGED <<displayVars, gatewayVars>>

NextDisplay == DisplayResource \/ DisplayReturn

SpecDisplay == InitDisplay /\ [][NextDisplay]_vars

(***************************************************************************)
(* azurerm/terraform: VirtualNetworkGateway.                               *)
(***************************************************************************)
ProviderKey == "azurerm"

SKUs == {"Basic", "Standard", "VpnGw1", "VpnGw2AZ"}
Locations == {"francecentral", "westeurope", "eastus"}

\* decoded virtualNetworkGatewayValues; the usage estimate is a whole number of GB
GatewayValues ==
    [SKU : SKUs, Location : Locations, MonthlyDataTransferGB : 0..MaxUsageGB]

\* helpers of the package that are outside the given sources: kept uninterpreted
getLocationName(location) == <<"getLocationName", location>>

getRegionToVNETZone(location) == <<"getRegionToVNETZone", location>>

\* decimal.NewFromFloat / decimal.NewFromInt: exact on whole numbers
NewFromFloat(f) == f

NewFromInt(i) == i

AttributeFilter(key, value) == [Key |-> key, Value |-> value]

newVirtualNetworkGatewayNoBasicRule(v) ==
    [location |-> getLocationName(v.Location),
     sku |-> v.SKU,
     meterName |-> v.SKU,
     monthlyDataTransferGB |-> NewFromFloat(v.MonthlyDataTransferGB)]

newVirtualNetworkGateway(v) ==
    [location |-> getLocationName(v.Location),
     sku |-> v.SKU,
     meterName |-> IF v.SKU = "Basic" THEN "Basic Gateway" ELSE v.SKU,
     monthlyDataTransferGB |-> NewFromFloat(v.MonthlyDataTransferGB)]

virtualNetworkGatewayComponent(key, location, sku, meterName) ==
    [Name |-> "VPN gateway (" \o sku \o ")",
     MonthlyQuantity |-> 0,
     HourlyQuantity |-> NewFromInt(1),
     Unit |-> "",
     Details |-> <<>>,
     Usage |-> FALSE,
     ProductFilter |->
        [Provider |-> key, Service |-> "VPN Gateway", Family |-> "Networking",
         Location |-> location,
         AttributeFilters |-> <<AttributeFilter("meter_name", meterName)>>],
     PriceFilter |->
        [Unit |-> "1 Hour", AttributeFilters |-> <<AttributeFilter("type", "Consumption")>>]]

virtualNetworkGatewayP2SComponent(key, location, sku) ==
    [Name |-> "VPN gateway P2S tunnels (over 128)",
     MonthlyQuantity |-> 0,
     HourlyQuantity |-> NewFromInt(1),
     Unit |-> "",
     Details |-> <<>>,
     Usage |-> FALSE,
     ProductFilter |->
        [Provider |-> key, Service |-> "VPN Gateway", Family |-> "Networking",
         Location |-> location,
         AttributeFilters |-> <<AttributeFilter("sku_name", sku),
                                AttributeFilter("meter_name", "P2S Connection")>>],
     PriceFilter |->
        [Unit |-> "1 Hour", AttributeFilters |-> <<AttributeFilter("type", "Consumption")>>]]

virtualNetworkGatewayDataTransfersComponent(inst, key, location) ==
    [Name |-> "VPN gateway data tranfer",
     MonthlyQuantity |-> inst.monthlyDataTransferGB,
     HourlyQuantity |-> 0,
     Unit |-> "",
     Details |-> <<>>,
     Usage |-> TRUE,
     ProductFilter |->
        [Provider |-> key, Service |-> "VPN Gateway", Family |-> "Networking",
         Location |-> getRegionToVNETZone(location),
         AttributeFilters |-> <<AttributeFilter("product_name", "VPN Gateway Bandwidth"),
                                AttributeFilter("meter_name", "Standard Inter-Virtual Network Data Transfer Out")>>],
     PriceFilter |->
        [Unit |-> "1 GB", AttributeFilters |-> <<AttributeFilter("type", "Consumption")>>]]

Components(inst) ==
    << virtualNetworkGatewayComponent(ProviderKey, inst.location, inst.sku, inst.meterName),
       virtualNetworkGatewayP2SComponent(ProviderKey, inst.location, inst.sku),
       virtualNetworkGatewayDataTransfersComponent(inst, ProviderKey, inst.location) >>

InitGateway ==
    /\ vals \in GatewayValues
    /\ components = <<>>
    /\ pc = "gateway"
    /\ NewStateIdle
    /\ DisplayIdle

\* p.newVirtualNetworkGateway(vals).Components()
GatewayComponents ==
    /\ pc = "gateway"
    /\ components' = Components(newVirtualNetworkGateway(vals))
    /\ pc' = "built"
    /\ UNCHANGED <<queries, backendNil, catalog, ctxDone, ri, ci, prods, resources, ret, calls>>
    /\ UNCHANGED <<vals, displayVars>>

NextGateway == GatewayComponents

SpecGateway == InitGateway /\ [][NextGateway]_vars

(***************************************************************************)
(* Properties of cost.NewState.                                            *)
(***************************************************************************)
Positions == UNION {{<<i, j>> : j \in DOMAIN queries[i].Components} : i \in DOMAIN queries}

QC(i, j) == queries[i].Components[j]

\* the loops are past component j of resource i
Processed(i, j) == i < ri \/ (i = ri /\ pc \in {"product", "price"} /\ j < ci)

\* the outer loop has reached resource i
Entered(i) == i < ri \/ (i = ri /\ pc \in {"product", "price"})

Before(i, j, k, l) == i < k \/ (i = k /\ j < l)

CallIdx(op, i, j) == {k \in DOMAIN calls : calls[k].op = op /\ calls[k].ri = i /\ calls[k].ci = j}

AnswerAt(op, i, j) == calls[CHOOSE k \in CallIdx(op, i, j) : TRUE].answer

ProductFound(i, j) ==
    AnswerAt("product", i, j).err = NoError /\ Len(AnswerAt("product", i, j).list) >= 1

\* why the resolution of component j of resource i failed; NoError when it did not
Failure(i, j) ==
    LET pa == AnswerAt("product", i, j)
    IN IF pa.err # NoError THEN pa.err
       ELSE IF Len(pa.list) = 0 THEN ErrProductNotFound
       ELSE LET pr == AnswerAt("price", i, j)
            IN IF pr.err # NoError THEN pr.err
               ELSE IF Len(pr.list) = 0 THEN ErrPriceNotFound
               ELSE NoError

FirstPrice(i, j) == AnswerAt("price", i, j).list[1].Value

IsRecorded(i, j) ==
    /\ queries[i].Address \in DOMAIN resources
    /\ QC(i, j).Name \in DOMAIN resources[queries[i].Address].Components

Recorded(i, j) == resources[queries[i].Address].Components[QC(i, j).Name]

Looked(i, j) ==
    /\ CallIdx("product", i, j) # {}
    /\ ProductFound(i, j) => CallIdx("price", i, j) # {}

Resolved(i, j) == Processed(i, j) /\ Looked(i, j) /\ Failure(i, j) = NoError

Failed(i, j) == Processed(i, j) /\ Looked(i, j) /\ Failure(i, j) # NoError

\* the monthly figures the data model asks of a component priced at p
MonthlyQuantityOf(c) == IF c.MonthlyQuantity # 0 THEN c.MonthlyQuantity ELSE c.HourlyQuantity

MonthlyRateOf(c, p) == IF c.MonthlyQuantity # 0 THEN p ELSE p * 730

C2_QuantityRateNormalisation ==
    \A pos \in Positions :
        LET i == pos[1]
            j == pos[2]
            c == QC(i, j)
            p == FirstPrice(i, j)
            recorded == Recorded(i, j)
        IN Resolved(i, j) =>
            /\ IsRecorded(i, j)
            /\ c.MonthlyQuantity # 0 =>
                 recorded.Quantity = c.MonthlyQuantity /\ recorded.Rate = p
            /\ c.MonthlyQuantity = 0 =>
                 recorded.Quantity = c.HourlyQuantity /\ recorded.Rate = p * 730
            /\ recorded.Unit = c.Unit
            /\ recorded.Details = c.Details
            /\ recorded.Error = NoError

\* a returned State with a priced monthly component and a priced usage-flagged
\* component whose usage estimate is 0
C2_Witness ==
    /\ pc = "done"
    /\ \E pos \in Positions :
        Resolved(pos[1], pos[2]) /\ QC(pos[1], pos[2]).MonthlyQuantity # 0
    /\ \E pos \in Positions :
        /\ Resolved(pos[1], pos[2])
        /\ QC(pos[1], pos[2]).MonthlyQuantity = 0
        /\ QC(pos[1], pos[2]).Usage
        /\ Recorded(pos[1], pos[2]).Rate = 7 * 730

\* C3: a resource with zero query components is recorded as skipped, no catalog
\* lookup is made for it and it adds 0 to State.Cost(); a resource with at least
\* one query component is never marked skipped.
C3_SkippedResources ==
    /\ \A i \in DOMAIN queries :
        LET a == queries[i].Address
        IN /\ (Entered(i) /\ Len(queries[i].Components) = 0) =>
                /\ a \in DOMAIN resources
                /\ resources[a].Skipped
                /\ ResourceCost(resources[a]) = 0
                /\ \A k \in DOMAIN calls : calls[k].ri # i
           /\ (Len(queries[i].Components) > 0 /\ a \in DOMAIN resources) => ~resources[a].Skipped
    /\ pc = "done" =>
        /\ ret.returned
        /\ \A i \in DOMAIN queries : queries[i].Address \in DOMAIN ret.state
        /\ LET kept == {a \in DOMAIN ret.state : ~ret.state[a].Skipped}
           IN StateCost(ret.state) = StateCost([a \in kept |-> ret.state[a]])

\* a returned State with a skipped resource beside a resource of positive cost
C3_Witness ==
    /\ pc = "done"
    /\ \E i, k \in DOMAIN queries :
        /\ Len(queries[i].Components) = 0
        /\ ret.state[queries[i].Address].Skipped
        /\ Len(queries[k].Components) > 0
        /\ ResourceCost(ret.state[queries[k].Address]) > 0

\* C6: State.Cost() of the returned State is the sum of quantity * rate over the
\* components that carry no error; failed components and skipped resources add 0,
\* so the total is the total of the priced components alone.
C6_CostIsSumOfPricedComponents ==
    pc = "done" =>
        LET labels == UNION {{<<a, l>> : l \in DOMAIN ret.state[a].Components} : a \in DOMAIN ret.state}
            priced == {al \in labels : ret.state[al[1]].Components[al[2]].Error = NoError}
            cost == [al \in priced |-> ret.state[al[1]].Components[al[2]].Quantity
                                        * ret.state[al[1]].Components[al[2]].Rate]
            resolved == {pos \in Positions : Resolved(pos[1], pos[2])}
            due == [pos \in resolved |-> MonthlyQuantityOf(QC(pos[1], pos[2]))
                                          * MonthlyRateOf(QC(pos[1], pos[2]), FirstPrice(pos[1], pos[2]))]
        IN /\ StateCost(ret.state) = SumSet(priced, cost)
           /\ StateCost(ret.state) = SumSet(resolved, due)

\* a returned State with two resources of positive cost and a failed component
C6_Witness ==
    /\ pc = "done"
    /\ \E a, b \in DOMAIN ret.state :
        a # b /\ ResourceCost(ret.state[a]) > 0 /\ ResourceCost(ret.state[b]) > 0
    /\ \E pos \in Positions : Failed(pos[1], pos[2])

\* C10: per component, in list order, exactly one product lookup with the
\* component's productFilter, then at most one price lookup, made only when the
\* product lookup returned without error and with a product, with the ID of the
\* first product and the component's priceFilter; the first price is the one
\* used; a lookup is issued only once every earlier component is recorded.
C10_LookupOrder ==
    /\ \A k \in DOMAIN calls :
        LET c == calls[k]
        IN /\ <<c.ri, c.ci>> \in Positions
           /\ c.op = "product" =>
                /\ c.filter = QC(c.ri, c.ci).ProductFilter
                /\ k > 1 => Before(calls[k-1].ri, calls[k-1].ci, c.ri, c.ci)
           /\ c.op = "price" =>
                /\ k > 1
                /\ calls[k-1].op = "product"
                /\ calls[k-1].ri = c.ri /\ calls[k-1].ci = c.ci
                /\ calls[k-1].answer.err = NoError
                /\ Len(calls[k-1].answer.list) >= 1
                /\ c.id = calls[k-1].answer.list[1].ID
                /\ c.filter = QC(c.ri, c.ci).PriceFilter
           /\ \A pos \in Positions :
                Before(pos[1], pos[2], c.ri, c.ci) => IsRecorded(pos[1], pos[2])
    /\ \A pos \in Positions :
        LET i == pos[1]
            j == pos[2]
        IN /\ Processed(i, j) =>
                /\ Cardinality(CallIdx("product", i, j)) = 1
                /\ Cardinality(CallIdx("price", i, j)) = IF ProductFound(i, j) THEN 1 ELSE 0
                /\ IsRecorded(i, j)
                /\ Failure(i, j) = NoError =>
                     Recorded(i, j).Rate \in {FirstPrice(i, j), FirstPrice(i, j) * 730}
           /\ ~Processed(i, j) =>
                /\ Cardinality(CallIdx("product", i, j)) = IF i = ri /\ j = ci /\ pc = "price" THEN 1 ELSE 0
                /\ CallIdx("price", i, j) = {}

\* a return after a price lookup that followed a product lookup with two
\* products, and after a product lookup that no price lookup followed
C10_Witness ==
    /\ pc = "done"
    /\ \E k \in DOMAIN calls :
        /\ calls[k].op = "price"
        /\ Len(calls[k-1].answer.list) = 2
        /\ calls[k].id = "p2"
    /\ \E k \in DOMAIN calls :
        /\ calls[k].op = "product"
        /\ k < Len(calls)
        /\ calls[k+1].op = "product"

\* C5: once ctx is cancelled during NewState, the build reports the cancellation:
\* it does not return a nil error together with a State whose components carry
\* the context's error.
C5_CancellationIsReported ==
    (pc = "done" /\ \E k \in DOMAIN calls : calls[k].answer.err = ErrCtx) => ret.err # NoError

\* C4: with a nil Backend the build returns an error before any resource is
\* processed: no Resource is recorded, nothing panics, no State is returned.
C4_NilBackendAborts ==
    backendNil =>
        /\ DOMAIN resources = {}
        /\ pc # "panic"
        /\ pc = "done" => ret.err # NoError

\* C9: given a Backend, the State holds one Resource per distinct address, with a
\* component for every label of every query resource of that address, whatever
\* the order of the entries; the build never crashes on an insertion.
C9_EntriesOfOneAddressAreMerged ==
    ~backendNil =>
        /\ pc # "panic"
        /\ pc = "done" =>
            /\ DOMAIN ret.state = {queries[i].Address : i \in DOMAIN queries}
            /\ \A pos \in Positions :
                QC(pos[1], pos[2]).Name \in DOMAIN ret.state[queries[pos[1]].Address].Components

(***************************************************************************)
(* Properties of estimateDisplay.                                          *)
(***************************************************************************)
\* C7: every resource difference gives exactly one line with its address: the
\* prior error when PriorCost() fails (PlannedCost() is then not evaluated), else
\* the planned error when PlannedCost() fails, else both figures; a failure never
\* stops the lines of the following resources.
C7_OneLinePerResourceDifference ==
    /\ Len(out) = di - 1
    /\ pc = "displayed" => Len(out) = Len(diffs)
    /\ \A k \in DOMAIN out :
        LET d == diffs[k]
        IN /\ out[k].args[1] = d.Address
           /\ Eval("PriorCost", k) \in {evals[n] : n \in DOMAIN evals}
           /\ d.prior.err # NoError =>
                /\ out[k].format = "PriorCost %s: %s\n"
                /\ out[k].args = <<d.Address, d.prior.err>>
                /\ Eval("PlannedCost", k) \notin {evals[n] : n \in DOMAIN evals}
           /\ (d.prior.err = NoError /\ d.planned.err # NoError) =>
                /\ out[k].format = "PlannedCost %s: %s\n"
                /\ out[k].args = <<d.Address, d.planned.err>>
           /\ (d.prior.err = NoError /\ d.planned.err = NoError) =>
                /\ out[k].format = "%s: %s -> %s\n"
                /\ out[k].args = <<d.Address, d.prior.cost, d.planned.cost>>

\* a finished report whose first resource failed on the prior side, with a
\* different planned error, and whose second resource shows both figures
C7_Witness ==
    /\ pc = "displayed"
    /\ Len(diffs) = 2
    /\ diffs[1].prior.err = ErrProductNotFound
    /\ diffs[1].planned.err = ErrPriceNotFound
    /\ out[1].format = "PriorCost %s: %s\n"
    /\ diffs[2].prior.err = NoError /\ diffs[2].planned.err = NoError
    /\ out[2].format = "%s: %s -> %s\n"

(***************************************************************************)
(* Properties of VirtualNetworkGateway.Components.                         *)
(***************************************************************************)
\* C8: exactly three components in the order base gateway, P2S tunnels, data
\* transfer; only the data transfer is usage-flagged, with monthlyQuantity = the
\* usage estimate and hourlyQuantity 0; base and P2S have hourlyQuantity 1 and
\* monthlyQuantity 0; the base meter_name is "Basic Gateway" for SKU "Basic" and
\* the SKU otherwise.
C8_GatewayComponents ==
    pc = "built" =>
        /\ Len(components) = 3
        /\ components[1].Name = "VPN gateway (" \o vals.SKU \o ")"
        /\ components[2].Name = "VPN gateway P2S tunnels (over 128)"
        /\ components[3].Name = "VPN gateway data tranfer"
        /\ ~components[1].Usage /\ ~components[2].Usage /\ components[3].Usage
        /\ components[1].HourlyQuantity = 1 /\ components[1].MonthlyQuantity = 0
        /\ components[2].HourlyQuantity = 1 /\ components[2].MonthlyQuantity = 0
        /\ components[3].HourlyQuantity = 0
        /\ components[3].MonthlyQuantity = vals.MonthlyDataTransferGB
        /\ components[1].ProductFilter.AttributeFilters =
             <<[Key |-> "meter_name",
                Value |-> IF vals.SKU = "Basic" THEN "Basic Gateway" ELSE vals.SKU]>>

\* the components of a Basic gateway with a non-zero usage estimate
C8_Witness ==
    /\ pc = "built"
    /\ vals.SKU = "Basic"
    /\ vals.MonthlyDataTransferGB = 3
    /\ Len(components) = 3
    /\ components[3].MonthlyQuantity = 3

====
